---- MODULE Spec2Model ----
(***************************************************************************)
(* Model of aibolit's AST framework (src/aibolit/utils/ast.py): the graph  *)
(* builder that converts a javalang parse tree into a networkx DiGraph,    *)
(* and the read-only query API over the built graph.                       *)
(*                                                                         *)
(* The parser tree is an input: the builder's walk over it is modelled     *)
(* step by step, and the kind of the next child the walk meets (a node,    *)
(* a text, a set, a nested list, something skipped, or the end of the      *)
(* current children list) is chosen nondeterministically, so the reachable *)
(* "built" states are the ASTs of all parser trees within the bounds.      *)
(***************************************************************************)
EXTENDS Integers, Sequences, FiniteSets, TLC

VARIABLES
    phase,      \* "unbuilt" | "building" | "built" | "failed"
    tree,       \* the DiGraph: [nodes, attrs, succ]
    root,       \* AST.root (0 while no AST instance exists)
    stack,      \* activations of _iterate_over_children_list
    handles,    \* history: every node_index allocated, in allocation order
    setchild,   \* the set-valued child the walk met in its latest step, if any
    last,       \* the last query and what it returned
    cache,      \* the instance __dict__ entry 'node_types': <<>> or <<value>>
    tpc,        \* per reader thread: position inside the node_types access
    tval,       \* per reader thread: the value computed / returned
    naccess,    \* per reader thread: completed accesses
    ncomputed   \* how many times the body of node_types has run

vars == <<phase, tree, root, stack, handles, setchild, last, cache, tpc, tval, naccess, ncomputed>>

(***************************************************************************)
(* Bounds of the model.                                                    *)
(***************************************************************************)
MaxNodes == 4        \* nodes in one AST (structure specification)
MaxListDepth == 1    \* nesting of list-valued children
MaxFlatNodes == 5    \* nodes in one AST (decoder specification)
MaxFlatDepth == 2    \* depth of the AST (decoder specification)
MaxQuantity == 2     \* largest quantity asked of get_first_n_children_with_type
MaxAccesses == 2     \* node_types accesses per reader thread
MaxCacheNodes == 3   \* nodes in one AST (cache specification)
MaxLineNodes == 4    \* nodes in one AST (source line specification)
MaxQueryNodes == 3   \* nodes in one AST (all-queries specification)

(***************************************************************************)
(* ASTNodeType: the members of the enumeration the model uses.             *)
(***************************************************************************)
STRING_T == "STRING"
COLLECTION_T == "COLLECTION"
CLASS_DECLARATION == "CLASS_DECLARATION"
METHOD_DECLARATION == "METHOD_DECLARATION"
METHOD_INVOCATION == "METHOD_INVOCATION"
MEMBER_REFERENCE == "MEMBER_REFERENCE"
BINARY_OPERATION == "BINARY_OPERATION"

ASTNodeType == {STRING_T, COLLECTION_T, CLASS_DECLARATION, METHOD_DECLARATION,
                METHOD_INVOCATION, MEMBER_REFERENCE, BINARY_OPERATION}

\* AST._NODE_SKIPED
NODE_SKIPED == -1

\* Python's None, where a text or a kind is expected.
None == "None"

\* Python's None in a list of handles (all node indexes are positive).
Missing == 0

Texts == {"a", "b"}

\* An element of a set-valued child: a text, None, or anything else.
SetItems == [tag : {"str"}, text : Texts]
              \cup {[tag |-> "none", text |-> ""], [tag |-> "other", text |-> ""]}

Threads == {1, 2}

(***************************************************************************)
(* networkx.DiGraph, as far as the AST uses it.  nodes is the insertion    *)
(* order of the node dict, attrs the per-node attribute dict (an optional  *)
(* attribute is a set with at most one element), succ the adjacency in     *)
(* edge insertion order.                                                   *)
(***************************************************************************)
EmptyGraph == [nodes |-> <<>>, attrs |-> <<>>, succ |-> <<>>]

\* len(tree)
GraphLen(G) == Len(G.nodes)

HasNode(G, n) == n \in DOMAIN G.attrs

NoAttrs == [type |-> {}, string |-> {}, source_code_line |-> {}]

\* tree.add_node(n, **attr): a new node gets the attributes, an existing node
\* has the given ones updated.  attr gives each attribute as a set, empty for
\* an attribute the call does not pass.
AddNode(G, n, attr) ==
    IF HasNode(G, n)
    THEN [G EXCEPT !.attrs[n] =
            [k \in DOMAIN NoAttrs |-> IF attr[k] = {} THEN @[k] ELSE attr[k]]]
    ELSE [nodes |-> Append(G.nodes, n),
          attrs |-> [x \in DOMAIN G.attrs \cup {n} |->
                        IF x = n THEN attr ELSE G.attrs[x]],
          succ |-> [x \in DOMAIN G.succ \cup {n} |->
                        IF x = n THEN <<>> ELSE G.succ[x]]]

\* tree.add_edge(u, v): both ends become nodes if they are not yet, and v is
\* appended to u's adjacency unless already there.
AddEdge(G, u, v) ==
    LET G2 == AddNode(AddNode(G, u, NoAttrs), v, NoAttrs)
    IN  IF \E i \in 1..Len(G2.succ[u]) : G2.succ[u][i] = v
        THEN G2
        ELSE [G2 EXCEPT !.succ[u] = Append(@, v)]

(***************************************************************************)
(* Graph Builder.                                                          *)
(***************************************************************************)
\* Mutant of NewIndex: the + 1 forgotten.
NewIndexFromLen(G) == GraphLen(G)

\* node_index = len(tree) + 1
NewIndex(G) == GraphLen(G) + 1

\* _build_from_javalang up to the call of _iterate_over_children_list, with
\* _extract_javalang_node_attributes: the node gets its handle, its type and,
\* when the parser gave a position, its source_code_line.
BuildNodeEntry(G, type, line) ==
    LET node_index == NewIndex(G)
    IN  [tree |-> AddNode(G, node_index,
                         [type |-> {type}, string |-> {}, source_code_line |-> line]),
         index |-> node_index]

\* _handle_javalang_string_node
HandleStringNode(G, text) ==
    LET node_index == NewIndex(G)
    IN  [tree |-> AddNode(G, node_index,
                         [type |-> {STRING_T}, string |-> {text}, source_code_line |-> {}]),
         index |-> node_index]

\* Mutant of CollectionItems: an item that is neither a text nor None is
\* passed over instead of raising.
RECURSIVE CollectionItemsLenient(_, _, _, _)
CollectionItemsLenient(G, node_index, items, made) ==
    IF items = <<>> THEN [tree |-> G, ok |-> TRUE, made |-> made]
    ELSE LET item == Head(items)
         IN  IF item.tag = "str"
             THEN LET s == HandleStringNode(G, item.text)
                  IN  CollectionItemsLenient(AddEdge(s.tree, node_index, s.index),
                                             node_index, Tail(items),
                                             Append(made, s.index))
             ELSE CollectionItemsLenient(G, node_index, Tail(items), made)

\* The loop of _handle_javalang_collection_node over the set's items, in the
\* order the set iterates: a text becomes a STRING child, None is passed over,
\* anything else raises RuntimeError (ok = FALSE, the graph as it was then).
RECURSIVE CollectionItems(_, _, _, _)
CollectionItems(G, node_index, items, made) ==
    IF items = <<>> THEN [tree |-> G, ok |-> TRUE, made |-> made]
    ELSE LET item == Head(items)
         IN  IF item.tag = "str"
             THEN LET s == HandleStringNode(G, item.text)
                  IN  CollectionItems(AddEdge(s.tree, node_index, s.index), node_index,
                                      Tail(items), Append(made, s.index))
             ELSE IF item.tag # "none"
             THEN [tree |-> G, ok |-> FALSE, made |-> made]
             ELSE CollectionItems(G, node_index, Tail(items), made)

\* _handle_javalang_collection_node
HandleCollectionNode(G, items) ==
    LET node_index == NewIndex(G)
        r == CollectionItems(AddNode(G, node_index, [NoAttrs EXCEPT !.type = {COLLECTION_T}]),
                             node_index, items, <<node_index>>)
    IN  [tree |-> r.tree, ok |-> r.ok, made |-> r.made, index |-> node_index]

\* Mutant of LinkChild: the _NODE_SKIPED test forgotten.
LinkChildUnchecked(G, parent_index, child_index) == AddEdge(G, parent_index, child_index)

\* _iterate_over_children_list, lines 272-274: the edge to a child that was
\* not skipped.
LinkChild(G, parent_index, child_index) ==
    IF child_index # NODE_SKIPED THEN AddEdge(G, parent_index, child_index) ELSE G

(***************************************************************************)
(* networkx traversals the Query API calls.                                *)
(***************************************************************************)
\* The while loop of networkx.dfs_labeled_edges: stk holds, per open node,
\* the node, the depth left and the position of its children iterator.
RECURSIVE DfsLoop(_, _, _, _)
DfsLoop(G, stk, visited, out) ==
    IF stk = <<>> THEN out
    ELSE LET top == stk[Len(stk)]
             rest == SubSeq(stk, 1, Len(stk) - 1)
         IN  IF top.pos <= Len(G.succ[top.parent])
             THEN LET child == G.succ[top.parent][top.pos]
                      stk1 == [stk EXCEPT ![Len(stk)].pos = @ + 1]
                  IN  IF child \in visited
                      THEN DfsLoop(G, stk1, visited,
                                   Append(out, <<top.parent, child, "nontree">>))
                      ELSE DfsLoop(G,
                                   IF top.depth_now > 1
                                   THEN Append(stk1, [parent |-> child,
                                                      depth_now |-> top.depth_now - 1,
                                                      pos |-> 1])
                                   ELSE stk1,
                                   visited \cup {child},
                                   Append(out, <<top.parent, child, "forward">>))
             ELSE DfsLoop(G, rest, visited,
                          IF rest # <<>>
                          THEN Append(out, <<rest[Len(rest)].parent, top.parent, "reverse">>)
                          ELSE out)

\* dfs_labeled_edges(tree, source): the (source, destination, edge_type)
\* triples of one depth-first search, depth_limit = len(tree).
DfsLabeledEdges(G, source) ==
    Append(DfsLoop(G, <<[parent |-> source, depth_now |-> GraphLen(G), pos |-> 1]>>,
                   {source}, <<<<source, source, "forward">>>>),
           <<source, source, "reverse">>)

RECURSIVE ForwardDestinations(_)
ForwardDestinations(edges) ==
    IF edges = <<>> THEN <<>>
    ELSE IF Head(edges)[3] = "forward"
         THEN <<Head(edges)[2]>> \o ForwardDestinations(Tail(edges))
         ELSE ForwardDestinations(Tail(edges))

RECURSIVE ReverseDestinations(_)
ReverseDestinations(edges) ==
    IF edges = <<>> THEN <<>>
    ELSE IF Head(edges)[3] = "reverse"
         THEN <<Head(edges)[2]>> \o ReverseDestinations(Tail(edges))
         ELSE ReverseDestinations(Tail(edges))

\* Mutant of DfsPreorderNodes: dfs_postorder_nodes, the destinations of the
\* reverse edges.
DfsPostorderNodes(G, source) == ReverseDestinations(DfsLabeledEdges(G, source))

\* dfs_preorder_nodes(tree, source): the destinations of the forward edges.
DfsPreorderNodes(G, source) == ForwardDestinations(DfsLabeledEdges(G, source))

(***************************************************************************)
(* Query API.  A call returns [err, value]: err is "" when the call        *)
(* returns value, and names the exception otherwise.                       *)
(***************************************************************************)
Returned(v) == [err |-> "", value |-> v]
Raised(e) == [err |-> e, value |-> <<>>]

\* get_attr: tree.nodes[node].get(attr_name, default_value)
GetAttr(G, node, attr_name, default_value) ==
    LET v == G.attrs[node][attr_name]
    IN  IF v = {} THEN default_value ELSE CHOOSE x \in v : TRUE

\* Mutant of AfterGetAttr: dict.setdefault in place of dict.get, which stores
\* the default under a missing key.
AfterSetDefault(G, node, attr_name, default_value) ==
    IF G.attrs[node][attr_name] = {}
    THEN [G EXCEPT !.attrs[node][attr_name] = {default_value}]
    ELSE G

\* The graph after get_attr: dict.get reads the attribute dict and adds no key.
AfterGetAttr(G, node, attr_name, default_value) == G

\* get_type
GetType(G, node) == GetAttr(G, node, "type", None)

RECURSIVE SelectByType(_, _, _)
SelectByType(G, seq, type) ==
    IF seq = <<>> THEN <<>>
    ELSE IF GetType(G, Head(seq)) = type
         THEN <<Head(seq)>> \o SelectByType(G, Tail(seq), type)
         ELSE SelectByType(G, Tail(seq), type)

\* children_with_type: everything the generator yields, in order.
ChildrenWithType(G, node, child_type) == SelectByType(G, G.succ[node], child_type)

\* Mutant of AllChildrenWithType: the recursive generator is yielded from.
RECURSIVE AllChildrenDeep(_, _, _)
AllChildrenDeep(G, seq, child_type) ==
    IF seq = <<>> THEN <<>>
    ELSE LET child == Head(seq)
         IN  IF GetType(G, child) = child_type
             THEN <<child>> \o AllChildrenDeep(G, G.succ[child], child_type)
                            \o AllChildrenDeep(G, Tail(seq), child_type)
             ELSE AllChildrenDeep(G, Tail(seq), child_type)

AllChildrenWithTypeDeep(G, node, child_type) == AllChildrenDeep(G, G.succ[node], child_type)

\* The loop of all_children_with_type: a matching child is yielded; the
\* recursive call on it only creates a generator, which is never iterated,
\* so what it would yield is dropped.
RECURSIVE AllChildrenLoop(_, _, _)
AllChildrenLoop(G, seq, child_type) ==
    IF seq = <<>> THEN <<>>
    ELSE LET child == Head(seq)
             dropped == AllChildrenLoop(G, G.succ[child], child_type)
         IN  IF GetType(G, child) = child_type
             THEN <<child>> \o AllChildrenLoop(G, Tail(seq), child_type)
             ELSE AllChildrenLoop(G, Tail(seq), child_type)

\* all_children_with_type: everything the generator yields, in order.
AllChildrenWithType(G, node, child_type) == AllChildrenLoop(G, G.succ[node], child_type)

\* Mutant of LineNumberLoop: the last usable line wins, not the first.
RECURSIVE LineNumberLoopLast(_, _)
LineNumberLoopLast(G, children) ==
    IF children = <<>> THEN 0
    ELSE LET cur_line == GetAttr(G, children[Len(children)], "source_code_line", -1)
         IN  IF cur_line >= 0 THEN cur_line
             ELSE LineNumberLoopLast(G, SubSeq(children, 1, Len(children) - 1))

\* The loop of get_line_number_from_children, and the return 0 after it.
RECURSIVE LineNumberLoop(_, _)
LineNumberLoop(G, children) ==
    IF children = <<>> THEN 0
    ELSE LET cur_line == GetAttr(G, Head(children), "source_code_line", -1)
         IN  IF cur_line >= 0 THEN cur_line
             ELSE LineNumberLoop(G, Tail(children))

\* get_line_number_from_children
GetLineNumberFromChildren(G, node) == LineNumberLoop(G, G.succ[node])

\* nodes_by_type
NodesByType(G, type) == SelectByType(G, G.nodes, type)

\* Mutant of SubtreeStep: any exit inside a subtree closes it, not only the
\* exit of the node that opened it.
SubtreeStepAnyExit(G, st, edge, root_type) ==
    LET destination == edge[2]
        edge_type == edge[3]
    IN  IF edge_type = "forward"
        THEN IF st.is_inside_subtree
             THEN [st EXCEPT !.subtree = Append(@, destination)]
             ELSE IF GetType(G, destination) = root_type
             THEN [st EXCEPT !.subtree = Append(@, destination),
                             !.is_inside_subtree = TRUE,
                             !.current_subtree_root = destination]
             ELSE st
        ELSE IF edge_type = "reverse" /\ st.is_inside_subtree
        THEN [st EXCEPT !.is_inside_subtree = FALSE,
                        !.yielded = Append(@, st.subtree),
                        !.subtree = <<>>]
        ELSE st

\* One iteration of the loop of subtrees_with_root_type over a labelled edge;
\* st = [is_inside_subtree, current_subtree_root, subtree, yielded].
SubtreeStep(G, st, edge, root_type) ==
    LET destination == edge[2]
        edge_type == edge[3]
    IN  IF edge_type = "forward"
        THEN IF st.is_inside_subtree
             THEN [st EXCEPT !.subtree = Append(@, destination)]
             ELSE IF GetType(G, destination) = root_type
             THEN [st EXCEPT !.subtree = Append(@, destination),
                             !.is_inside_subtree = TRUE,
                             !.current_subtree_root = destination]
             ELSE st
        ELSE IF edge_type = "reverse" /\ destination = st.current_subtree_root
        THEN [st EXCEPT !.is_inside_subtree = FALSE,
                        !.yielded = Append(@, st.subtree),
                        !.subtree = <<>>]
        ELSE st

RECURSIVE SubtreesLoop(_, _, _, _)
SubtreesLoop(G, st, edges, root_type) ==
    IF edges = <<>> THEN st
    ELSE SubtreesLoop(G, SubtreeStep(G, st, Head(edges), root_type), Tail(edges), root_type)

\* subtrees_with_root_type: the lists the generator yields, in order.
SubtreesWithRootType(G, source, root_type) ==
    SubtreesLoop(G, [is_inside_subtree |-> FALSE, current_subtree_root |-> -1,
                     subtree |-> <<>>, yielded |-> <<>>],
                 DfsLabeledEdges(G, source), root_type).yielded

\* Mutant of GetFirstNChildrenWithType: the chain with repeat(None) forgotten.
GetFirstNChildrenUnpadded(G, node, child_type, quantity) ==
    LET children_with_type == SelectByType(G, G.succ[node], child_type)
    IN  [i \in 1..(IF quantity <= Len(children_with_type) THEN quantity
                   ELSE Len(children_with_type)) |-> children_with_type[i]]

\* get_first_n_children_with_type: islice over the matching children chained
\* with an endless repeat(None).
GetFirstNChildrenWithType(G, node, child_type, quantity) ==
    LET children_with_type == SelectByType(G, G.succ[node], child_type)
    IN  [i \in 1..quantity |->
            IF i <= Len(children_with_type) THEN children_with_type[i] ELSE Missing]

\* Mutant of GetBinaryOperationName: the assertion on the kind left out.
GetBinaryOperationNameUnasserted(G, node) ==
    LET children == ChildrenWithType(G, node, STRING_T)
    IN  IF children = <<>> THEN Raised("ValueError")
        ELSE Returned(GetAttr(G, children[1], "string", None))

\* get_binary_operation_name: the assertion on the kind, then the unpacking
\* of the first STRING child (ValueError when there is none) and its text.
GetBinaryOperationName(G, node) ==
    IF GetType(G, node) # BINARY_OPERATION THEN Raised("AssertionError")
    ELSE LET children == ChildrenWithType(G, node, STRING_T)
         IN  IF children = <<>> THEN Raised("ValueError")
             ELSE Returned(GetAttr(G, children[1], "string", None))

\* Mutant of GetMethodInvocationParams: the children are not filtered by STRING.
GetMethodInvocationParamsUnfiltered(G, invocation_node) ==
    IF GetType(G, invocation_node) # METHOD_INVOCATION THEN Raised("AssertionError")
    ELSE LET children == G.succ[invocation_node]
         IN  IF Len(children) = 1
             THEN Returned([object_name |-> "",
                            method_name |-> GetAttr(G, children[1], "string", None)])
             ELSE IF Len(children) < 2
             THEN Raised("IndexError")
             ELSE Returned([object_name |-> GetAttr(G, children[1], "string", None),
                            method_name |-> GetAttr(G, children[2], "string", None)])

\* get_method_invocation_params
GetMethodInvocationParams(G, invocation_node) ==
    IF GetType(G, invocation_node) # METHOD_INVOCATION THEN Raised("AssertionError")
    ELSE LET children == ChildrenWithType(G, invocation_node, STRING_T)
         IN  IF Len(children) = 1
             THEN Returned([object_name |-> "",
                            method_name |-> GetAttr(G, children[1], "string", None)])
             ELSE IF Len(children) < 2
             THEN Raised("IndexError")
             ELSE Returned([object_name |-> GetAttr(G, children[1], "string", None),
                            method_name |-> GetAttr(G, children[2], "string", None)])

\* Mutant of GetMemberReferenceParams: three texts decoded without the shift.
GetMemberReferenceParamsUnshifted(G, member_reference_node) ==
    IF GetType(G, member_reference_node) # MEMBER_REFERENCE THEN Raised("AssertionError")
    ELSE LET children == ChildrenWithType(G, member_reference_node, STRING_T)
             params == [i \in 1..Len(children) |-> GetAttr(G, children[i], "string", None)]
         IN  IF Len(params) = 1
             THEN Returned([object_name |-> "", member_name |-> params[1],
                            unary_operator |-> ""])
             ELSE IF Len(params) = 2
             THEN Returned([object_name |-> params[1], member_name |-> params[2],
                            unary_operator |-> ""])
             ELSE IF Len(params) = 3
             THEN Returned([object_name |-> params[1], member_name |-> params[2],
                            unary_operator |-> params[3]])
             ELSE Raised("ValueError")

\* get_member_reference_params
GetMemberReferenceParams(G, member_reference_node) ==
    IF GetType(G, member_reference_node) # MEMBER_REFERENCE THEN Raised("AssertionError")
    ELSE LET children == ChildrenWithType(G, member_reference_node, STRING_T)
             params == [i \in 1..Len(children) |-> GetAttr(G, children[i], "string", None)]
         IN  IF Len(params) = 1
             THEN Returned([object_name |-> "", member_name |-> params[1],
                            unary_operator |-> ""])
             ELSE IF Len(params) = 2
             THEN Returned([object_name |-> params[1], member_name |-> params[2],
                            unary_operator |-> ""])
             ELSE IF Len(params) = 3
             THEN Returned([unary_operator |-> params[1], object_name |-> params[2],
                            member_name |-> params[3]])
             ELSE Raised("ValueError")

\* print_step in __str__
PrintStep == 4

\* The loop of __str__ over the labelled edges: one line per forward edge,
\* given as its indentation (followed by '|---' when not 0), the kind and,
\* for a STRING node, the text.
RECURSIVE StrLoop(_, _, _, _)
StrLoop(G, edges, depth, printed_graph) ==
    IF edges = <<>> THEN printed_graph
    ELSE LET destination == Head(edges)[2]
             edge_type == Head(edges)[3]
             node_type == GetType(G, destination)
         IN  IF edge_type = "forward"
             THEN StrLoop(G, Tail(edges), depth + PrintStep,
                          Append(printed_graph,
                                 [indent |-> depth, type |-> node_type,
                                  text |-> IF node_type = STRING_T
                                           THEN {GetAttr(G, destination, "string", None)}
                                           ELSE {}]))
             ELSE IF edge_type = "reverse"
             THEN StrLoop(G, Tail(edges), depth - PrintStep, printed_graph)
             ELSE StrLoop(G, Tail(edges), depth, printed_graph)

\* __str__
Str(G, source) == StrLoop(G, DfsLabeledEdges(G, source), 0, <<>>)

\* The body of node_types.
NodeTypesBody(G, source) ==
    LET order == DfsPreorderNodes(G, source)
    IN  [i \in 1..Len(order) |-> GetAttr(G, order[i], "type", None)]

\* The iteration orders of the sets a parser tree may hold: every sequence
\* of distinct items.
SetOrders ==
    UNION {{q \in [1..n -> SetItems] : \A i, j \in 1..n : i # j => q[i] # q[j]}
             : n \in 0..Cardinality(SetItems)}

NumTexts(items) == Cardinality({i \in 1..Len(items) : items[i].tag = "str"})

Top == stack[Len(stack)]
Popped == SubSeq(stack, 1, Len(stack) - 1)
NodeDepth == Cardinality({i \in 1..Len(stack) : ~stack[i].nested})
ListDepth == Cardinality({i \in 1..Len(stack) : stack[i].nested})

queryVars == <<last, cache, tpc, tval, naccess, ncomputed>>

\* The latest step of the walk met no set-valued child.
NoSet == [met |-> FALSE, items |-> <<>>]

\* build_from_javalang: a fresh DiGraph and the entry into
\* _build_from_javalang for the parser tree's root.
BuildFromJavalang(type, line) ==
    /\ phase = "unbuilt"
    /\ LET r == BuildNodeEntry(EmptyGraph, type, line)
       IN  /\ tree' = r.tree
           /\ handles' = Append(handles, r.index)
           /\ stack' = <<[parent |-> r.index, nested |-> FALSE]>>
    /\ phase' = "building"
    /\ UNCHANGED <<root, queryVars>>
    /\ setchild' = NoSet

\* The next child is a javalang Node: _handle_javalang_ast_node recurses into
\* _build_from_javalang.
NodeChild(type, line, maxNodes, maxDepth) ==
    /\ phase = "building"
    /\ GraphLen(tree) < maxNodes
    /\ NodeDepth < maxDepth
    /\ LET r == BuildNodeEntry(tree, type, line)
       IN  /\ tree' = r.tree
           /\ handles' = Append(handles, r.index)
           /\ stack' = Append(stack, [parent |-> r.index, nested |-> FALSE])
    /\ UNCHANGED <<phase, root, queryVars>>
    /\ setchild' = NoSet

\* The next child is a list: _iterate_over_children_list recurses with the
\* same parent.
ListChild ==
    /\ phase = "building"
    /\ ListDepth < MaxListDepth
    /\ stack' = Append(stack, [parent |-> Top.parent, nested |-> TRUE])
    /\ UNCHANGED <<phase, tree, root, handles, queryVars>>
    /\ setchild' = NoSet

\* The next child is a text.
StringChild(text, maxNodes) ==
    /\ phase = "building"
    /\ GraphLen(tree) < maxNodes
    /\ LET r == HandleStringNode(tree, text)
       IN  /\ tree' = LinkChild(r.tree, Top.parent, r.index)
           /\ handles' = Append(handles, r.index)
    /\ UNCHANGED <<phase, root, stack, queryVars>>
    /\ setchild' = NoSet

\* The next child is a set.  A malformed item aborts the build: the
\* RuntimeError leaves build_from_javalang and no AST instance exists.
CollectionChild(items, maxNodes) ==
    /\ phase = "building"
    /\ GraphLen(tree) + 1 + NumTexts(items) <= maxNodes
    /\ LET r == HandleCollectionNode(tree, items)
       IN  /\ handles' = handles \o r.made
           /\ IF r.ok
              THEN /\ tree' = LinkChild(r.tree, Top.parent, r.index)
                   /\ UNCHANGED <<phase, stack>>
              ELSE /\ tree' = r.tree
                   /\ phase' = "failed"
                   /\ stack' = <<>>
    /\ UNCHANGED <<root, queryVars>>
    /\ setchild' = [met |-> TRUE, items |-> items]

\* The next child is None (or of a type the builder does not handle):
\* _handle_javalang_ast_node returns _NODE_SKIPED and no edge is added.
SkippedChild ==
    /\ phase = "building"
    /\ tree' = LinkChild(tree, Top.parent, NODE_SKIPED)
    /\ UNCHANGED <<phase, root, stack, handles, queryVars>>
    /\ setchild' = NoSet

\* The current children list is exhausted.  A nested list returns to the
\* enclosing iteration; a node's list returns its node_index, which the
\* caller links to its parent, or, for the parser tree's root, hands to
\* AST(tree, root).
EndChildren ==
    /\ phase = "building"
    /\ stack' = Popped
    /\ IF Top.nested
       THEN UNCHANGED <<phase, tree, root>>
       ELSE IF Popped = <<>>
       THEN /\ phase' = "built"
            /\ root' = Top.parent
            /\ UNCHANGED tree
       ELSE /\ tree' = LinkChild(tree, Popped[Len(Popped)].parent, Top.parent)
            /\ UNCHANGED <<phase, root>>
    /\ UNCHANGED <<handles, queryVars>>
    /\ setchild' = NoSet

NoQuery == [op |-> "none"]


Init ==
    /\ phase = "unbuilt"
    /\ tree = EmptyGraph
    /\ root = 0
    /\ stack = <<>>
    /\ handles = <<>>
    /\ setchild = NoSet
    /\ last = NoQuery
    /\ cache = <<>>
    /\ tpc = [t \in Threads |-> "idle"]
    /\ tval = [t \in Threads |-> <<>>]
    /\ naccess = [t \in Threads |-> 0]
    /\ ncomputed = 0

(***************************************************************************)
(* Queries on the built AST.  last records the call and its outcome.       *)
(***************************************************************************)
buildVars == <<phase, tree, root, stack, handles, setchild>>
cacheVars == <<cache, tpc, tval, naccess, ncomputed>>

QuerySubtreesWithRootType(root_type) ==
    /\ phase = "built"
    /\ last = NoQuery
    /\ last' = [op |-> "subtrees_with_root_type", type |-> root_type,
                result |-> Returned(SubtreesWithRootType(tree, root, root_type))]
    /\ UNCHANGED <<buildVars, cacheVars>>

QueryGetFirstNChildrenWithType(node, child_type, quantity) ==
    /\ phase = "built"
    /\ last = NoQuery
    /\ HasNode(tree, node)
    /\ last' = [op |-> "get_first_n_children_with_type", node |-> node,
                type |-> child_type, quantity |-> quantity,
                result |-> Returned(GetFirstNChildrenWithType(tree, node, child_type,
                                                              quantity))]
    /\ UNCHANGED <<buildVars, cacheVars>>

QueryGetMethodInvocationParams(node) ==
    /\ phase = "built"
    /\ last = NoQuery
    /\ HasNode(tree, node)
    /\ last' = [op |-> "get_method_invocation_params", node |-> node,
                result |-> GetMethodInvocationParams(tree, node)]
    /\ UNCHANGED <<buildVars, cacheVars>>

QueryGetMemberReferenceParams(node) ==
    /\ phase = "built"
    /\ last = NoQuery
    /\ HasNode(tree, node)
    /\ last' = [op |-> "get_member_reference_params", node |-> node,
                result |-> GetMemberReferenceParams(tree, node)]
    /\ UNCHANGED <<buildVars, cacheVars>>

QueryGetAttr(node, attr_name, default_value) ==
    /\ phase = "built"
    /\ last = NoQuery
    /\ HasNode(tree, node)
    /\ last' = [op |-> "get_attr", node |-> node, attr |-> attr_name,
                result |-> Returned(GetAttr(tree, node, attr_name, default_value))]
    /\ tree' = AfterGetAttr(tree, node, attr_name, default_value)
    /\ UNCHANGED <<phase, root, stack, handles, setchild, cacheVars>>

QueryGetType(node) ==
    /\ phase = "built"
    /\ last = NoQuery
    /\ HasNode(tree, node)
    /\ last' = [op |-> "get_type", node |-> node,
                result |-> Returned(GetType(tree, node))]
    /\ tree' = AfterGetAttr(tree, node, "type", None)
    /\ UNCHANGED <<phase, root, stack, handles, setchild, cacheVars>>

QueryNodesByType(type) ==
    /\ phase = "built"
    /\ last = NoQuery
    /\ last' = [op |-> "nodes_by_type", type |-> type,
                result |-> Returned(NodesByType(tree, type))]
    /\ UNCHANGED <<buildVars, cacheVars>>

QueryStr ==
    /\ phase = "built"
    /\ last = NoQuery
    /\ last' = [op |-> "__str__", result |-> Returned(Str(tree, root))]
    /\ UNCHANGED <<buildVars, cacheVars>>

QueryChildrenWithType(node, child_type) ==
    /\ phase = "built"
    /\ last = NoQuery
    /\ HasNode(tree, node)
    /\ last' = [op |-> "children_with_type", node |-> node, type |-> child_type,
                result |-> Returned(ChildrenWithType(tree, node, child_type))]
    /\ UNCHANGED <<buildVars, cacheVars>>

QueryAllChildrenWithType(node, child_type) ==
    /\ phase = "built"
    /\ last = NoQuery
    /\ HasNode(tree, node)
    /\ last' = [op |-> "all_children_with_type", node |-> node, type |-> child_type,
                result |-> Returned(AllChildrenWithType(tree, node, child_type))]
    /\ UNCHANGED <<buildVars, cacheVars>>

QueryGetLineNumberFromChildren(node) ==
    /\ phase = "built"
    /\ last = NoQuery
    /\ HasNode(tree, node)
    /\ last' = [op |-> "get_line_number_from_children", node |-> node,
                result |-> Returned(GetLineNumberFromChildren(tree, node))]
    /\ UNCHANGED <<buildVars, cacheVars>>

QueryGetBinaryOperationName(node) ==
    /\ phase = "built"
    /\ last = NoQuery
    /\ HasNode(tree, node)
    /\ last' = [op |-> "get_binary_operation_name", node |-> node,
                result |-> GetBinaryOperationName(tree, node)]
    /\ UNCHANGED <<buildVars, cacheVars>>

\* The caller is done with what the call returned or raised.
QueryReturn ==
    /\ last # NoQuery
    /\ last' = NoQuery
    /\ UNCHANGED <<buildVars, cacheVars>>

(***************************************************************************)
(* node_types, a cached_property: Python looks the name up in the          *)
(* instance __dict__ first and calls the descriptor's __get__ only when    *)
(* it is not there; __get__ runs the body and stores what it returned.     *)
(* Reader threads may be switched between any two of these steps.          *)
(***************************************************************************)
\* The attribute access: a hit in the instance __dict__ returns the stored
\* list, a miss enters cached_property.__get__.
AccessNodeTypes(t) ==
    /\ phase = "built"
    /\ tpc[t] = "idle"
    /\ naccess[t] < MaxAccesses
    /\ IF cache # <<>>
       THEN /\ tval' = [tval EXCEPT ![t] = cache[1]]
            /\ naccess' = [naccess EXCEPT ![t] = @ + 1]
            /\ UNCHANGED tpc
       ELSE /\ tpc' = [tpc EXCEPT ![t] = "get"]
            /\ UNCHANGED <<tval, naccess>>
    /\ UNCHANGED <<buildVars, last, cache, ncomputed>>

\* __get__: self.func(obj), the body of node_types.
ComputeNodeTypes(t) ==
    /\ tpc[t] = "get"
    /\ tval' = [tval EXCEPT ![t] = NodeTypesBody(tree, root)]
    /\ ncomputed' = ncomputed + 1
    /\ tpc' = [tpc EXCEPT ![t] = "store"]
    /\ UNCHANGED <<buildVars, last, cache, naccess>>

\* __get__: value = obj.__dict__['node_types'] = ...; return value
StoreNodeTypes(t) ==
    /\ tpc[t] = "store"
    /\ cache' = <<tval[t]>>
    /\ naccess' = [naccess EXCEPT ![t] = @ + 1]
    /\ tpc' = [tpc EXCEPT ![t] = "idle"]
    /\ UNCHANGED <<buildVars, last, tval, ncomputed>>

(***************************************************************************)
(* Specifications.  Each draws the parser tree from its own bounded        *)
(* family and applies the queries its properties are about.                *)
(***************************************************************************)
TreeKinds == {CLASS_DECLARATION, METHOD_DECLARATION}
FlatKinds == {METHOD_INVOCATION, MEMBER_REFERENCE, BINARY_OPERATION}
FlatChildKinds == {METHOD_INVOCATION}
NoLine == {{}}

\* Structure: every shape of child, and the whole-tree traversals.
Build ==
    \/ \E type \in TreeKinds, line \in NoLine : BuildFromJavalang(type, line)
    \/ \E type \in TreeKinds, line \in NoLine : NodeChild(type, line, MaxNodes, MaxNodes)
    \/ ListChild
    \/ \E text \in Texts : StringChild(text, MaxNodes)
    \/ \E items \in SetOrders : CollectionChild(items, MaxNodes)
    \/ SkippedChild
    \/ EndChildren

Next ==
    \/ Build
    \/ \E root_type \in TreeKinds \cup {STRING_T, COLLECTION_T} :
            QuerySubtreesWithRootType(root_type)
    \/ QueryReturn

Spec == Init /\ [][Next]_vars

\* Decoders: shallow trees with many text children.
BuildFlat ==
    \/ \E type \in FlatKinds, line \in NoLine : BuildFromJavalang(type, line)
    \/ \E type \in FlatChildKinds, line \in NoLine :
            NodeChild(type, line, MaxFlatNodes, MaxFlatDepth)
    \/ \E text \in Texts : StringChild(text, MaxFlatNodes)
    \/ EndChildren

NextDecode ==
    \/ BuildFlat
    \/ \E node \in 1..MaxFlatNodes, child_type \in FlatChildKinds \cup {STRING_T},
          quantity \in 0..MaxQuantity :
            QueryGetFirstNChildrenWithType(node, child_type, quantity)
    \/ \E node \in 1..MaxFlatNodes : QueryGetMethodInvocationParams(node)
    \/ \E node \in 1..MaxFlatNodes : QueryGetMemberReferenceParams(node)
    \/ \E node \in 1..MaxFlatNodes : QueryGetBinaryOperationName(node)
    \/ QueryReturn

SpecDecode == Init /\ [][NextDecode]_vars

\* Source lines: nodes with and without a position, nested three deep.
LineKinds == {CLASS_DECLARATION}
Lines == {{}, {1}, {2}}
LineTexts == {"a"}

BuildLines ==
    \/ \E type \in LineKinds, line \in Lines : BuildFromJavalang(type, line)
    \/ \E type \in LineKinds, line \in Lines :
            NodeChild(type, line, MaxLineNodes, MaxLineNodes)
    \/ \E text \in LineTexts : StringChild(text, MaxLineNodes)
    \/ EndChildren

NextLines ==
    \/ BuildLines
    \/ \E node \in 1..MaxLineNodes : QueryGetLineNumberFromChildren(node)
    \/ \E node \in 1..MaxLineNodes, child_type \in LineKinds \cup {STRING_T} :
            QueryChildrenWithType(node, child_type)
    \/ \E node \in 1..MaxLineNodes, child_type \in LineKinds \cup {STRING_T} :
            QueryAllChildrenWithType(node, child_type)
    \/ QueryReturn

SpecLines == Init /\ [][NextLines]_vars

\* All queries: small trees, every operation of the Query API, one reader of
\* node_types.
QueryRootKinds == {MEMBER_REFERENCE, METHOD_INVOCATION}
QueryKinds == {MEMBER_REFERENCE}
QueryLines == {{}, {1}}
QueryTexts == {"a"}
QueryTypes == {MEMBER_REFERENCE, STRING_T}
QueryNodes == 1..MaxQueryNodes

BuildForQueries ==
    \/ \E type \in QueryRootKinds, line \in QueryLines : BuildFromJavalang(type, line)
    \/ \E type \in QueryKinds, line \in QueryLines :
            NodeChild(type, line, MaxQueryNodes, MaxQueryNodes)
    \/ \E text \in QueryTexts : StringChild(text, MaxQueryNodes)
    \/ EndChildren

NextQueries ==
    \/ BuildForQueries
    \/ \E node \in QueryNodes : QueryGetType(node)
    \/ \E node \in QueryNodes : QueryGetAttr(node, "source_code_line", -1)
    \/ \E node \in QueryNodes : QueryGetAttr(node, "string", None)
    \/ \E node \in QueryNodes, type \in QueryTypes : QueryChildrenWithType(node, type)
    \/ \E node \in QueryNodes, type \in QueryTypes : QueryAllChildrenWithType(node, type)
    \/ \E node \in QueryNodes, type \in QueryTypes, quantity \in 0..MaxQuantity :
            QueryGetFirstNChildrenWithType(node, type, quantity)
    \/ \E type \in QueryTypes : QueryNodesByType(type)
    \/ \E type \in QueryTypes : QuerySubtreesWithRootType(type)
    \/ \E node \in QueryNodes : QueryGetLineNumberFromChildren(node)
    \/ \E node \in QueryNodes : QueryGetBinaryOperationName(node)
    \/ \E node \in QueryNodes : QueryGetMethodInvocationParams(node)
    \/ \E node \in QueryNodes : QueryGetMemberReferenceParams(node)
    \/ QueryStr
    \/ QueryReturn
    \/ AccessNodeTypes(1)
    \/ ComputeNodeTypes(1)
    \/ StoreNodeTypes(1)

SpecQueries == Init /\ [][NextQueries]_vars

\* Cache: small trees read by concurrent threads.
BuildSmall ==
    \/ \E type \in TreeKinds, line \in NoLine : BuildFromJavalang(type, line)
    \/ \E type \in TreeKinds, line \in NoLine :
            NodeChild(type, line, MaxCacheNodes, MaxCacheNodes)
    \/ \E text \in Texts : StringChild(text, MaxCacheNodes)
    \/ EndChildren

NextCache ==
    \/ BuildSmall
    \/ \E t \in Threads : AccessNodeTypes(t)
    \/ \E t \in Threads : ComputeNodeTypes(t)
    \/ \E t \in Threads : StoreNodeTypes(t)
    \/ QuerySubtreesWithRootType(CLASS_DECLARATION)
    \/ QueryReturn

SpecCache == Init /\ [][NextCache]_vars

(***************************************************************************)
(* The tree underlying a graph, stated without the traversals above.       *)
(***************************************************************************)
NodeSet(G) == DOMAIN G.attrs

ChildSet(G, n) == {G.succ[n][i] : i \in 1..Len(G.succ[n])}

RECURSIVE ReachFrom(_, _)
ReachFrom(G, S) ==
    LET S2 == S \cup UNION {ChildSet(G, n) : n \in S}
    IN  IF S2 = S THEN S ELSE ReachFrom(G, S2)

\* The nodes below n: reachable by one edge or more.
ProperDescendants(G, n) == ReachFrom(G, ChildSet(G, n))

InDegree(G, n) ==
    Cardinality({e \in UNION {{<<u, i>> : i \in 1..Len(G.succ[u])} : u \in NodeSet(G)} :
                    G.succ[e[1]][e[2]] = n})

KindOf(G, n) == IF G.attrs[n].type = {} THEN None ELSE CHOOSE k \in G.attrs[n].type : TRUE

\* n followed by the preorders of its children, in edge order.
RECURSIVE PreorderOfAll(_, _)
PreorderOfAll(G, seq) ==
    IF seq = <<>> THEN <<>>
    ELSE <<Head(seq)>> \o PreorderOfAll(G, G.succ[Head(seq)]) \o PreorderOfAll(G, Tail(seq))

PreorderOf(G, n) == PreorderOfAll(G, <<n>>)

Occurrences(lists, n) ==
    Cardinality({e \in UNION {{<<i, j>> : j \in 1..Len(lists[i])} : i \in 1..Len(lists)} :
                    lists[e[1]][e[2]] = n})

AskedSubtrees == phase = "built" /\ last.op = "subtrees_with_root_type"

(***************************************************************************)
(* C1: for any two lists subtrees_with_root_type(K) yields on a built AST, *)
(* the root (first element) of neither is an ancestor or a descendant of   *)
(* the root of the other.                                                  *)
(***************************************************************************)
C1_RootsDoNotNest ==
    AskedSubtrees =>
        LET ys == last.result.value
        IN  \A i, j \in 1..Len(ys) :
                i # j => /\ ys[i][1] \notin ProperDescendants(tree, ys[j][1])
                         /\ ys[j][1] \notin ProperDescendants(tree, ys[i][1])

\* Two subtrees were yielded and one of them absorbed an inner node of the kind.
C1_Witness ==
    /\ AskedSubtrees
    /\ Len(last.result.value) >= 2
    /\ \E i \in 1..Len(last.result.value) :
          \E j \in 2..Len(last.result.value[i]) :
             KindOf(tree, last.result.value[i][j]) = last.type

(***************************************************************************)
(* C2: subtrees_with_root_type(K) reports exactly the outermost K-kind     *)
(* nodes: the yielded roots are the K-kind nodes with no K-kind proper     *)
(* ancestor, each yielded list is its root followed by all its descendants *)
(* in depth-first entry order, and every K-kind node is in exactly one     *)
(* yielded list.                                                           *)
(***************************************************************************)
C2_OutermostSubtrees ==
    AskedSubtrees =>
        LET ys == last.result.value
            K == last.type
            ofKind == {n \in NodeSet(tree) : KindOf(tree, n) = K}
            outermost == {n \in ofKind :
                            ~\E a \in ofKind : n \in ProperDescendants(tree, a)}
        IN  /\ \A i \in 1..Len(ys) : ys[i] # <<>> /\ ys[i] = PreorderOf(tree, ys[i][1])
            /\ {ys[i][1] : i \in 1..Len(ys)} = outermost
            /\ \A n \in ofKind : Occurrences(ys, n) = 1

\* A yielded list of three nodes or more holds an inner node of the kind,
\* which is not itself reported.
C2_Witness ==
    /\ AskedSubtrees
    /\ \E i \in 1..Len(last.result.value) :
          /\ Len(last.result.value[i]) >= 3
          /\ \E j \in 2..Len(last.result.value[i]) :
                KindOf(tree, last.result.value[i][j]) = last.type
    /\ Cardinality({n \in NodeSet(tree) : KindOf(tree, n) = last.type})
          > Len(last.result.value)

(***************************************************************************)
(* C3: every AST build_from_javalang produces is a rooted tree: the root   *)
(* is the one node without an incoming edge, every other node has exactly  *)
(* one incoming edge, and there is no cycle.                               *)
(***************************************************************************)
C3_RootedTree ==
    phase = "built" =>
        /\ root \in NodeSet(tree)
        /\ {n \in NodeSet(tree) : InDegree(tree, n) = 0} = {root}
        /\ \A n \in NodeSet(tree) \ {root} : InDegree(tree, n) = 1
        /\ \A n \in NodeSet(tree) : n \notin ProperDescendants(tree, n)

\* A built AST in which one node has both a node child and a set child with
\* a text element (which became a STRING node).
C3_Witness ==
    /\ phase = "built"
    /\ \E n \in NodeSet(tree) :
          /\ \E c \in ChildSet(tree, n) : KindOf(tree, c) \in TreeKinds
          /\ \E c \in ChildSet(tree, n) :
                /\ KindOf(tree, c) = COLLECTION_T
                /\ \E g \in ChildSet(tree, c) : KindOf(tree, g) = STRING_T

(***************************************************************************)
(* C4: in every built AST the handles are assigned in construction order   *)
(* starting at 1: the root's handle is 1, no handle is assigned twice, the *)
(* order of assignment is the preorder of the tree, and every node's       *)
(* handle is smaller than the handle of every node below it.               *)
(***************************************************************************)
C4_HandlesInPreorder ==
    phase = "built" =>
        /\ root = 1
        /\ \A i \in 1..Len(handles) : handles[i] = i
        /\ tree.nodes = handles
        /\ PreorderOf(tree, root) = handles
        /\ \A n \in NodeSet(tree) : \A d \in ProperDescendants(tree, n) : n < d

\* A built AST of depth three whose synthesized STRING and COLLECTION nodes
\* lie below a non-root node.
C4_Witness ==
    /\ phase = "built"
    /\ \E n \in NodeSet(tree) \ {root} :
          \E c \in ChildSet(tree, n) :
             /\ KindOf(tree, c) = COLLECTION_T
             /\ \E g \in ChildSet(tree, c) : KindOf(tree, g) = STRING_T

(***************************************************************************)
(* The immediate children of a kind, stated by position: the j-th match is *)
(* the child at the edge position that has j matches up to and including   *)
(* itself.                                                                 *)
(***************************************************************************)
MatchPositions(G, h, K) == {i \in 1..Len(G.succ[h]) : KindOf(G, G.succ[h][i]) = K}

NumMatches(G, h, K) == Cardinality(MatchPositions(G, h, K))

NthMatch(G, h, K, j) ==
    G.succ[h][CHOOSE i \in MatchPositions(G, h, K) :
                 Cardinality({x \in MatchPositions(G, h, K) : x <= i}) = j]

TextOf(G, n) == CHOOSE t \in G.attrs[n].string : TRUE

NthText(G, h, j) == TextOf(G, NthMatch(G, h, STRING_T, j))

Asked(op) == phase = "built" /\ last.op = op

(***************************************************************************)
(* C5: get_first_n_children_with_type(h, K, n) returns exactly n entries:  *)
(* the first min(n, m) are the first immediate K-kind children of h in     *)
(* edge order (m being their number) and the rest are the missing marker.  *)
(***************************************************************************)
C5_ExactlyNPadded ==
    Asked("get_first_n_children_with_type") =>
        LET r == last.result.value
            n == last.quantity
            m == NumMatches(tree, last.node, last.type)
        IN  /\ last.result.err = ""
            /\ DOMAIN r = 1..n
            /\ \A j \in 1..n :
                  r[j] = IF j <= m THEN NthMatch(tree, last.node, last.type, j)
                         ELSE Missing

\* Two entries were asked of a node with one match that is not its first
\* child: the match, then the padding.
C5_Witness ==
    /\ Asked("get_first_n_children_with_type")
    /\ last.quantity = 2
    /\ NumMatches(tree, last.node, last.type) = 1
    /\ 1 \notin MatchPositions(tree, last.node, last.type)
    /\ last.result.value[2] = Missing

(***************************************************************************)
(* C6: get_method_invocation_params on a METHOD_INVOCATION node whose      *)
(* number of immediate STRING children is neither 1 nor 2 ends in an       *)
(* error and returns no value.                                             *)
(***************************************************************************)
C6_OtherCountsRaise ==
    ( /\ Asked("get_method_invocation_params")
      /\ KindOf(tree, last.node) = METHOD_INVOCATION
      /\ NumMatches(tree, last.node, STRING_T) \notin {1, 2} )
        => last.result.err # ""

(***************************************************************************)
(* C7: get_method_invocation_params on a METHOD_INVOCATION node with one   *)
(* STRING child of text t returns ("", t), with two STRING children of     *)
(* texts t0, t1 returns (t0, t1); other children do not matter.            *)
(***************************************************************************)
C7_PositionalDecode ==
    ( /\ Asked("get_method_invocation_params")
      /\ KindOf(tree, last.node) = METHOD_INVOCATION )
        => /\ NumMatches(tree, last.node, STRING_T) = 1 =>
                last.result = Returned([object_name |-> "",
                                        method_name |-> NthText(tree, last.node, 1)])
           /\ NumMatches(tree, last.node, STRING_T) = 2 =>
                last.result = Returned([object_name |-> NthText(tree, last.node, 1),
                                        method_name |-> NthText(tree, last.node, 2)])

\* Two different texts decoded from a node whose first child is not a STRING.
C7_Witness ==
    /\ Asked("get_method_invocation_params")
    /\ KindOf(tree, last.node) = METHOD_INVOCATION
    /\ NumMatches(tree, last.node, STRING_T) = 2
    /\ 1 \notin MatchPositions(tree, last.node, STRING_T)
    /\ last.result.err = ""
    /\ last.result.value.object_name # last.result.value.method_name

(***************************************************************************)
(* C8: get_member_reference_params on a MEMBER_REFERENCE node decodes by   *)
(* the number of its immediate STRING children c0, c1, c2: one gives       *)
(* ("", c0, ""), two give (c0, c1, ""), three give object c1, member c2,   *)
(* operator c0; none or more than three is an error and no value.          *)
(***************************************************************************)
C8_MemberReferenceDecode ==
    ( /\ Asked("get_member_reference_params")
      /\ KindOf(tree, last.node) = MEMBER_REFERENCE )
        => LET m == NumMatches(tree, last.node, STRING_T)
               c(j) == NthText(tree, last.node, j)
           IN  /\ m = 1 => last.result = Returned([object_name |-> "", member_name |-> c(1),
                                                   unary_operator |-> ""])
               /\ m = 2 => last.result = Returned([object_name |-> c(1), member_name |-> c(2),
                                                   unary_operator |-> ""])
               /\ m = 3 => last.result = Returned([object_name |-> c(2), member_name |-> c(3),
                                                   unary_operator |-> c(1)])
               /\ m \notin {1, 2, 3} => last.result = Raised("ValueError")

\* Three texts decoded with the shift: the operator differs from the member.
C8_Witness ==
    /\ Asked("get_member_reference_params")
    /\ KindOf(tree, last.node) = MEMBER_REFERENCE
    /\ NumMatches(tree, last.node, STRING_T) = 3
    /\ last.result.err = ""
    /\ last.result.value.unary_operator # last.result.value.member_name

\* More than three texts: the decoder raised.
C8_WitnessTooMany ==
    /\ Asked("get_member_reference_params")
    /\ KindOf(tree, last.node) = MEMBER_REFERENCE
    /\ NumMatches(tree, last.node, STRING_T) > 3
    /\ last.result.err = "ValueError"

(***************************************************************************)
(* C9: node_types is computed at most once per AST instance, also when     *)
(* several readers perform the first access concurrently.                  *)
(***************************************************************************)
C9_ComputedAtMostOnce == ncomputed <= 1

(***************************************************************************)
(* C10: every access of node_types, by any reader, any number of times and *)
(* between any other queries, returns the same sequence: as long as the    *)
(* AST has nodes, with the kind of the i-th node of the preorder traversal *)
(* from the root at position i.                                            *)
(***************************************************************************)
PreorderKinds(G, source) ==
    LET order == PreorderOf(G, source)
    IN  [i \in 1..Len(order) |-> KindOf(G, order[i])]

HasReturned(t) == naccess[t] > 0 /\ tpc[t] = "idle"

C10_NodeTypesIsPreorderKinds ==
    phase = "built" =>
        /\ \A t \in Threads :
              HasReturned(t) => /\ tval[t] = PreorderKinds(tree, root)
                                /\ Len(tval[t]) = Cardinality(NodeSet(tree))
        /\ cache # <<>> => cache[1] = PreorderKinds(tree, root)

\* Both readers have read node_types, one of them twice, with another query
\* pending, on an AST of three nodes that are not all of one kind.
C10_Witness ==
    /\ phase = "built"
    /\ last.op = "subtrees_with_root_type"
    /\ \A t \in Threads : HasReturned(t)
    /\ \E t \in Threads : naccess[t] >= 2
    /\ Len(tval[1]) >= 3
    /\ \E i, j \in 1..Len(tval[1]) : tval[1][i] # tval[1][j]

(***************************************************************************)
(* C11: each typed decoder called on a node of another kind than its own   *)
(* (BINARY_OPERATION for get_binary_operation_name, METHOD_INVOCATION for  *)
(* get_method_invocation_params, MEMBER_REFERENCE for                      *)
(* get_member_reference_params) fails with the kind-mismatch error,        *)
(* however many STRING children the node has, and returns no value.        *)
(***************************************************************************)
DecoderKind ==
    [get_binary_operation_name |-> BINARY_OPERATION,
     get_method_invocation_params |-> METHOD_INVOCATION,
     get_member_reference_params |-> MEMBER_REFERENCE]

AskedDecoder == phase = "built" /\ last.op \in DOMAIN DecoderKind

C11_WrongKindRaises ==
    ( /\ AskedDecoder
      /\ KindOf(tree, last.node) # DecoderKind[last.op] )
        => last.result = Raised("AssertionError")

\* get_binary_operation_name was asked of a METHOD_INVOCATION node with
\* exactly one STRING child, which a BINARY_OPERATION would decode, and failed.
C11_Witness ==
    /\ Asked("get_binary_operation_name")
    /\ KindOf(tree, last.node) = METHOD_INVOCATION
    /\ NumMatches(tree, last.node, STRING_T) = 1
    /\ last.result.err = "AssertionError"

(***************************************************************************)
(* C13: get_line_number_from_children(h) returns the source_code_line of   *)
(* the first immediate child of h, in edge order, that has one, passing    *)
(* over earlier children without; it returns 0 when no immediate child has *)
(* one, whatever h itself or deeper nodes carry; it never raises.          *)
(***************************************************************************)
LinedPositions(G, h) == {i \in 1..Len(G.succ[h]) : G.attrs[G.succ[h][i]].source_code_line # {}}

LineOf(G, n) == CHOOSE l \in G.attrs[n].source_code_line : TRUE

C13_FirstChildLine ==
    Asked("get_line_number_from_children") =>
        LET lined == LinedPositions(tree, last.node)
        IN  /\ last.result.err = ""
            /\ lined = {} => last.result.value = 0
            /\ lined # {} =>
                  last.result.value =
                      LineOf(tree, tree.succ[last.node][CHOOSE i \in lined :
                                                           \A x \in lined : i <= x])

\* The first child has no line, the next has the line returned, and a later
\* child has a different line.
C13_Witness ==
    /\ Asked("get_line_number_from_children")
    /\ 1 \notin LinedPositions(tree, last.node)
    /\ \E i, j \in LinedPositions(tree, last.node) :
          /\ i < j
          /\ last.result.value = LineOf(tree, tree.succ[last.node][i])
          /\ last.result.value # LineOf(tree, tree.succ[last.node][j])

\* 0 is returned for a node that has a line itself and a grandchild with a
\* line, but no child with one.
C13_WitnessZero ==
    /\ Asked("get_line_number_from_children")
    /\ last.result.value = 0
    /\ tree.attrs[last.node].source_code_line # {}
    /\ \E c \in ChildSet(tree, last.node) :
          \E g \in ChildSet(tree, c) : tree.attrs[g].source_code_line # {}

IsTextItem(item) == item.tag = "str"

Malformed(items) == \E i \in 1..Len(items) : items[i].tag = "other"

SyntheticKindsHold(G) ==
    \A n \in NodeSet(G) :
        /\ KindOf(G, n) = COLLECTION_T =>
              \A c \in ChildSet(G, n) : KindOf(G, c) = STRING_T
        /\ KindOf(G, n) = STRING_T => G.succ[n] = <<>>

SetChildStep ==
    setchild'.met =>
        LET items == setchild'.items
            texts == SelectSeq(items, IsTextItem)
            parent == stack[Len(stack)].parent
            c == handles'[Len(handles) + 1]
        IN  IF Malformed(items)
            THEN phase' = "failed" /\ root' = 0
            ELSE /\ phase' = phase
                 /\ c \notin NodeSet(tree)
                 /\ KindOf(tree', c) = COLLECTION_T
                 /\ tree'.succ[parent] = Append(tree.succ[parent], c)
                 /\ Len(tree'.succ[c]) = Len(texts)
                 /\ \A i \in 1..Len(texts) :
                       LET g == tree'.succ[c][i]
                       IN  /\ g \notin NodeSet(tree) \cup {c}
                           /\ KindOf(tree', g) = STRING_T
                           /\ tree'.attrs[g].string = {texts[i].text}
                           /\ tree'.succ[g] = <<>>
                           /\ InDegree(tree', g) = 1
                 /\ Cardinality(NodeSet(tree')) = Cardinality(NodeSet(tree)) + 1 + Len(texts)

C14_SyntheticKinds ==
    [][ /\ SetChildStep
        /\ phase = "failed" => (phase' = "failed" /\ root' = 0)
        /\ phase' = "built" => SyntheticKindsHold(tree') ]_vars

\* The walk has just handled a set of two texts and None: a COLLECTION node
\* with two STRING leaves.
C14_Witness ==
    /\ phase = "building"
    /\ setchild.met
    /\ Len(setchild.items) = 3
    /\ ~Malformed(setchild.items)
    /\ \E n \in NodeSet(tree) :
          KindOf(tree, n) = COLLECTION_T /\ Len(tree.succ[n]) = 2

\* The walk has just met a set with a text and then a malformed element: the
\* build is aborted.
C14_WitnessAbort ==
    /\ phase = "failed"
    /\ setchild.met
    /\ Malformed(setchild.items)
    /\ setchild.items[1].tag = "str"
    /\ root = 0

(***************************************************************************)
(* C12: once build_from_javalang has returned, no operation of the Query   *)
(* API, whether it returns or raises, changes the store: the node set, the *)
(* edges and their order, the root handle and every node's attributes stay *)
(* as they are.                                                            *)
(***************************************************************************)
C12_StoreImmutableOnceBuilt ==
    [][phase = "built" => (phase' = "built" /\ tree' = tree /\ root' = root)]_vars

\* On an AST of three nodes, node_types has been read and cached and a
\* decoder has then raised.
C12_Witness ==
    /\ phase = "built"
    /\ Cardinality(NodeSet(tree)) = 3
    /\ cache # <<>>
    /\ last.op \in DOMAIN DecoderKind
    /\ last.result.err # ""

====
